---- MODULE Spec2Model ----
(***************************************************************************)
(* State-machine model of the Alveograph exporter.                         *)
(*                                                                         *)
(*   - the Record Parser (data::read_data_from_file, called from main.rs   *)
(*     line 61; its body is not part of the sources, so it is modelled     *)
(*     from the design document, sections 4.1 and 7);                      *)
(*   - the Tabular Exporter (process.rs: get_workbook,                     *)
(*     write_output_to_sheet, close_workbook) on top of the workbook       *)
(*     object of rust_xlsxwriter;                                          *)
(*   - the main program (main.rs: ensure_config_valid, the event loop and  *)
(*     its AppClosing, ConfigReset and Process arms, validate_input_paths, *)
(*     validate_output_path) with the GUI state it reads (gui.rs);         *)
(*   - the integrated dialog of the GUI (gui.rs 219-307).                  *)
(*                                                                         *)
(* Numbers are fixed-point: an integer n stands for n / 1000, so 55346 is  *)
(* 55.346.  Rows and columns of a worksheet are 0-based, as in the code;   *)
(* sequences are 1-based, so records[r-1] of the code is data[r] here.     *)
(***************************************************************************)
EXTENDS Integers, Sequences, FiniteSets, TLC

VARIABLES
    file_name,      \* parser input: the file name, split at its dots
    raw_text,       \* parser input: the lines of the file, each a sequence of tokens
    config,         \* the ConfigStore handed to the parser
    parse_result,   \* what read_data_from_file returned
    data,           \* the batch (Vec<Data>) handed to the exporter
    workbook,       \* the Workbook: its worksheets, in creation order
    result,         \* what the last exporter call returned
    last_sheet_name,\* the sheet_name argument of the last write_output_to_sheet
    disk,           \* the file at the output path
    calls,          \* what each write_output_to_sheet call so far returned
    pc,             \* main: "startup", "loop", "quit" (loop left) or "panicked"
    at,             \* the alert or question the running handler waits in, or "idle"
    queue,          \* the messages sent to main and not yet received
    frame,          \* the locals of the Process arm while it runs
    cfg_path_ok,    \* environment: can the configuration path be determined
    cfg_file0,      \* the configuration file as it was found at startup
    cfg_file,       \* the configuration file
    config_path,    \* main's config_path: Option<PathBuf>
    gui_config,     \* the configuration held by the GUI's config controls
    last_input_paths, \* GUI: the input paths of the last selection
    last_output_path, \* GUI: the output path of the last file chooser, if any
    output_txt,     \* GUI: the text of the output box, read as a path
    confirmed,      \* the existing path the user agreed to overwrite in the chooser
    cfg_writes,     \* every call of try_write_config so far, in order
    ev,             \* what the last handler has done so far, or the user's last act
    groups,         \* GUI: which of the widget groups are active
    dlg             \* the call of integrated_dialog_message_choice in progress

coreVars == <<file_name, raw_text, config, parse_result, data, workbook, result,
              last_sheet_name, disk, calls>>

mainVars == <<pc, at, queue, frame, cfg_path_ok, cfg_file0, cfg_file, config_path,
              gui_config, last_input_paths, last_output_path, output_txt,
              confirmed, cfg_writes, ev>>

dlgVars == <<groups, dlg>>

vars == <<coreVars, mainVars, dlgVars>>

(***************************************************************************)
(* Bounds of the model.                                                    *)
(***************************************************************************)
MaxLines == 4
MaxRows == 2
MaxRecords == 2
MaxBatchRows == 4
MaxSheets == 2
MaxCalls == 3
MaxQueue == 1

(***************************************************************************)
(* Data model (data.rs).                                                   *)
(***************************************************************************)
Row(header, value) == [header |-> header, value |-> value]

\* The rows a batch is built from: two labels, one value with three
\* decimals and one with none.
RowSet == {Row("P", 55346), Row("L", 60000)}

TestNames == {"A", "B"}

new1(test_name, row_data) == [test_name |-> test_name, row_data |-> row_data]

new(test_name) == new1(test_name, <<>>)

SeqsUpTo(S, n) == UNION {[1..k -> S] : k \in 0..n}

DataSet == {new1(t, rd) : t \in TestNames, rd \in SeqsUpTo(RowSet, MaxRows)}

RECURSIVE TotalRows(_)
TotalRows(records) ==
    IF Len(records) = 0 THEN 0
    ELSE Len(records[1].row_data) + TotalRows(Tail(records))

\* The batches: at most MaxRecords records of at most MaxRows rows each,
\* MaxBatchRows rows in all.
Batches == {b \in SeqsUpTo(DataSet, MaxRecords) : TotalRows(b) <= MaxBatchRows}

\* The ordered label sequence of one record: its column schema.
HeaderSeq(d) == [i \in 1..Len(d.row_data) |-> d.row_data[i].header]

(***************************************************************************)
(* Results.                                                                *)
(***************************************************************************)
NoResult == [kind |-> "None"]

\* Which exporter call returned last, and what it returned.
Returned(op, res) == [op |-> op, res |-> res]

Ok == [kind |-> "Ok"]

OkData(d) == [kind |-> "Ok", data |-> d]

Err(e) == [kind |-> "Err", err |-> e]

(***************************************************************************)
(* Record Parser.                                                          *)
(***************************************************************************)
Markers == {"DATA:", "Results"}

Configs == {[read_start_header |-> m] : m \in Markers}

\* Decimal numerals and the numbers they denote (in thousandths).
NumTable == [t \in {"55.346", "60.0"} |-> IF t = "55.346" THEN 55346 ELSE 60000]

IsNumeric(tok) == tok \in DOMAIN NumTable

ParseNumber(tok) == NumTable[tok]

\* The lines a raw text is built from: the two marker lines, a blank line,
\* two well-formed data lines, a line whose value token is not a number.
\* A marker line that is not the configured one has no value token at all.
LineSet == { <<"DATA:">>, <<"Results">>, <<>>,
             <<"P", "55.346">>, <<"L", "60.0">>, <<"L", "n/a">> }

Texts == SeqsUpTo(LineSet, MaxLines)

FileNames == { <<"A", "txt">>, <<"B">> }

RECURSIVE JoinWith(_, _)
JoinWith(parts, sep) ==
    IF Len(parts) = 0 THEN ""
    ELSE IF Len(parts) = 1 THEN parts[1]
    ELSE parts[1] \o sep \o JoinWith(Tail(parts), sep)

\* The file stem: the name without its last extension.
Stem(name) ==
    IF Len(name) <= 1 THEN JoinWith(name, ".")
    ELSE JoinWith(SubSeq(name, 1, Len(name) - 1), ".")

IsBlank(line) == Len(line) = 0

IsMarkerLine(line, cfg) == line = <<cfg.read_start_header>>

\* Index of the first marker line, 0 when there is none.
MarkerIndex(text, cfg) ==
    IF \E i \in 1..Len(text) : IsMarkerLine(text[i], cfg)
    THEN CHOOSE i \in 1..Len(text) :
            /\ IsMarkerLine(text[i], cfg)
            /\ \A j \in 1..(i - 1) : ~IsMarkerLine(text[j], cfg)
    ELSE 0

\* A data line decomposes into a label and a numeric token.
WellFormed(line) == Len(line) >= 2 /\ IsNumeric(line[Len(line)])

LineLabel(line) == JoinWith(SubSeq(line, 1, Len(line) - 1), " ")

LineRow(line) == Row(LineLabel(line), ParseNumber(line[Len(line)]))

MarkerNotFound == [kind |-> "MarkerNotFound"]

MalformedRow(line_number, content) ==
    [kind |-> "MalformedRow", line_number |-> line_number, content |-> content]

\* Variant of ParseRows: each row is put in front of the rows read so far.
RECURSIVE ParseRows_Prepend(_, _, _, _)
ParseRows_Prepend(text, i, test_name, rows) ==
    IF i > Len(text) THEN OkData(new1(test_name, rows))
    ELSE IF IsBlank(text[i]) THEN ParseRows_Prepend(text, i + 1, test_name, rows)
    ELSE IF WellFormed(text[i])
         THEN ParseRows_Prepend(text, i + 1, test_name,
                                <<LineRow(text[i])>> \o rows)
    ELSE Err(MalformedRow(i, text[i]))

\* Variant of ParseRows: a line that does not decompose is skipped.
RECURSIVE ParseRows_Skip(_, _, _, _)
ParseRows_Skip(text, i, test_name, rows) ==
    IF i > Len(text) THEN OkData(new1(test_name, rows))
    ELSE IF WellFormed(text[i])
         THEN ParseRows_Skip(text, i + 1, test_name, Append(rows, LineRow(text[i])))
    ELSE ParseRows_Skip(text, i + 1, test_name, rows)

\* The scan of the lines after the marker, rows appended in file order.
RECURSIVE ParseRows(_, _, _, _)
ParseRows(text, i, test_name, rows) ==
    IF i > Len(text) THEN OkData(new1(test_name, rows))
    ELSE IF IsBlank(text[i]) THEN ParseRows(text, i + 1, test_name, rows)
    ELSE IF WellFormed(text[i])
         THEN ParseRows(text, i + 1, test_name, Append(rows, LineRow(text[i])))
    ELSE Err(MalformedRow(i, text[i]))

\* Variant of read_data_from_file: a text without the marker gives a record
\* without rows.
read_data_NoMarkerEmpty(name, text, cfg) ==
    LET m == MarkerIndex(text, cfg)
    IN  IF m = 0 THEN OkData(new(Stem(name)))
        ELSE ParseRows(text, m + 1, Stem(name), <<>>)

read_data_from_file(name, text, cfg) ==
    LET m == MarkerIndex(text, cfg)
    IN  IF m = 0 THEN Err(MarkerNotFound)
        ELSE ParseRows(text, m + 1, Stem(name), <<>>)

(***************************************************************************)
(* Workbook (rust_xlsxwriter) as the exporter uses it.                     *)
(***************************************************************************)
\* The sheet names the exporter is called with: two names a worksheet can
\* carry and the blank name, which set_name refuses.
SheetNames == {"Alveograph", "Data", ""}

\* Column 0 is set 20 character-units wide.
COL0_WIDTH == 20

DefaultWidth == [kind |-> "Default"]

Format(bold, num_format) ==
    [bold |-> bold, align |-> "Center", num_format |-> num_format]

StringCell(s, fmt) == [kind |-> "String", str |-> s, format |-> fmt]

NumberCell(n, fmt) == [kind |-> "Number", num |-> n, format |-> fmt]

NoCells == [rc \in {} |-> NumberCell(0, Format(FALSE, "General"))]

\* Rounding to two decimal places, half away from zero (in thousandths).
Round2(n) ==
    IF n >= 0 THEN ((n + 5) \div 10) * 10 ELSE -(((-n) + 5) \div 10) * 10

\* Workbook::new().
get_workbook == <<>>

\* Workbook::add_worksheet(): the new worksheet is appended under the
\* default name Sheet<n>, n its position in the workbook.
add_worksheet(wb) ==
    Append(wb, [name |-> "Sheet" \o ToString(Len(wb) + 1),
                cells |-> NoCells,
                col_width |-> DefaultWidth])

\* Worksheet::set_name() checks the name alone (here: it must not be
\* blank); it does not know the other worksheets of the workbook.
ValidSheetName(sheet_name) == sheet_name # ""

\* Worksheet::write*(): the cell at (row, col) is set, replacing any
\* earlier content.
write(cells, row, col, cell) ==
    [rc \in (DOMAIN cells) \cup {<<row, col>>} |->
        IF rc = <<row, col>> THEN cell ELSE cells[rc]]

(***************************************************************************)
(* Tabular Exporter (process.rs).                                          *)
(***************************************************************************)
\* Variant of WriteHeaders: the headers start in column 0.
RECURSIVE WriteHeaders_NoShift(_, _, _)
WriteHeaders_NoShift(cells, row_data, index) ==
    IF index >= Len(row_data) THEN cells
    ELSE WriteHeaders_NoShift(
            write(cells, 0, index,
                  StringCell(row_data[index + 1].header, Format(TRUE, "General"))),
            row_data, index + 1)

\* process.rs 26-31: the header row, taken from the first record.
RECURSIVE WriteHeaders(_, _, _)
WriteHeaders(cells, row_data, index) ==
    IF index >= Len(row_data) THEN cells
    ELSE WriteHeaders(
            write(cells, 0, index + 1,
                  StringCell(row_data[index + 1].header, Format(TRUE, "General"))),
            row_data, index + 1)

\* Variant of WriteValues: the number is rounded to two decimals before it
\* is stored.
RECURSIVE WriteValues_Rounded(_, _, _, _)
WriteValues_Rounded(cells, row_num, row_data, col_offset) ==
    IF col_offset >= Len(row_data) THEN cells
    ELSE WriteValues_Rounded(
            write(cells, row_num, 1 + col_offset,
                  NumberCell(Round2(row_data[col_offset + 1].value),
                             Format(FALSE, "0.00"))),
            row_num, row_data, col_offset + 1)

\* process.rs 38-41: the values of one record, one column each.
RECURSIVE WriteValues(_, _, _, _)
WriteValues(cells, row_num, row_data, col_offset) ==
    IF col_offset >= Len(row_data) THEN cells
    ELSE WriteValues(
            write(cells, row_num, 1 + col_offset,
                  NumberCell(row_data[col_offset + 1].value, Format(FALSE, "0.00"))),
            row_num, row_data, col_offset + 1)

\* Variant of WriteRecords: row_num is not advanced.
RECURSIVE WriteRecords_SameRow(_, _, _, _)
WriteRecords_SameRow(cells, records, k, row_num) ==
    IF k > Len(records) THEN cells
    ELSE WriteRecords_SameRow(
            WriteValues(
                write(cells, row_num, 0,
                      StringCell(records[k].test_name, Format(FALSE, "General"))),
                row_num, records[k].row_data, 0),
            records, k + 1, row_num)

\* process.rs 35-43: one sheet row per record, from row 1 on;
\* records[k] is the k-th record still to be written.
RECURSIVE WriteRecords(_, _, _, _)
WriteRecords(cells, records, k, row_num) ==
    IF k > Len(records) THEN cells
    ELSE WriteRecords(
            WriteValues(
                write(cells, row_num, 0,
                      StringCell(records[k].test_name, Format(FALSE, "General"))),
                row_num, records[k].row_data, 0),
            records, k + 1, row_num + 1)

\* Variant of write_output_to_sheet: the name is checked first and a
\* worksheet is added only for a name it can carry.
write_output_NameFirst(wb, records, sheet_name) ==
    LET wb1 == add_worksheet(wb)
        n == Len(wb1)
    IN  IF ~ValidSheetName(sheet_name)
        THEN [workbook |-> wb, result |-> Err("SheetnameCannotBeBlank")]
        ELSE LET named == [wb1[n] EXCEPT !.name = sheet_name]
             IN  IF Len(records) < 1
                 THEN [workbook |-> [wb1 EXCEPT ![n] = named], result |-> Ok]
                 ELSE LET c0 == write(named.cells, 0, 0,
                                      StringCell("test-name", Format(TRUE, "General")))
                          c1 == WriteHeaders(c0, records[1].row_data, 0)
                          c2 == WriteRecords(c1, records, 1, 1)
                          sheet == [named EXCEPT !.cells = c2,
                                                 !.col_width = [kind |-> "Width",
                                                                width |-> COL0_WIDTH]]
                      IN  [workbook |-> [wb1 EXCEPT ![n] = sheet], result |-> Ok]

\* Variant of write_output_to_sheet: a batch whose records differ in their
\* headers is refused after the worksheet is named.
write_output_Revalidating(wb, records, sheet_name) ==
    LET wb1 == add_worksheet(wb)
        n == Len(wb1)
    IN  IF ~ValidSheetName(sheet_name)
        THEN [workbook |-> wb1, result |-> Err("SheetnameCannotBeBlank")]
        ELSE LET named == [wb1[n] EXCEPT !.name = sheet_name]
             IN  IF Len(records) < 1
                 THEN [workbook |-> [wb1 EXCEPT ![n] = named], result |-> Ok]
                 ELSE IF \E j \in 2..Len(records) :
                            HeaderSeq(records[j]) # HeaderSeq(records[1])
                 THEN [workbook |-> [wb1 EXCEPT ![n] = named],
                       result |-> Err("SchemaMismatch")]
                 ELSE LET c0 == write(named.cells, 0, 0,
                                      StringCell("test-name", Format(TRUE, "General")))
                          c1 == WriteHeaders(c0, records[1].row_data, 0)
                          c2 == WriteRecords(c1, records, 1, 1)
                          sheet == [named EXCEPT !.cells = c2,
                                                 !.col_width = [kind |-> "Width",
                                                                width |-> COL0_WIDTH]]
                      IN  [workbook |-> [wb1 EXCEPT ![n] = sheet], result |-> Ok]

\* Variant of write_output_to_sheet: the "test-name" cell is written before
\* the batch is found empty.
write_output_HeaderFirst(wb, records, sheet_name) ==
    LET wb1 == add_worksheet(wb)
        n == Len(wb1)
    IN  IF ~ValidSheetName(sheet_name)
        THEN [workbook |-> wb1, result |-> Err("SheetnameCannotBeBlank")]
        ELSE LET named == [wb1[n] EXCEPT !.name = sheet_name]
                 c0 == write(named.cells, 0, 0,
                             StringCell("test-name", Format(TRUE, "General")))
             IN  IF Len(records) < 1
                 THEN [workbook |-> [wb1 EXCEPT ![n] = [named EXCEPT !.cells = c0]],
                       result |-> Ok]
                 ELSE LET c1 == WriteHeaders(c0, records[1].row_data, 0)
                          c2 == WriteRecords(c1, records, 1, 1)
                          sheet == [named EXCEPT !.cells = c2,
                                                 !.col_width = [kind |-> "Width",
                                                                width |-> COL0_WIDTH]]
                      IN  [workbook |-> [wb1 EXCEPT ![n] = sheet], result |-> Ok]

\* process.rs 20-48.  Returns the workbook after the call and the result.
write_output_to_sheet(wb, records, sheet_name) ==
    LET wb1 == add_worksheet(wb)
        n == Len(wb1)
    IN  IF ~ValidSheetName(sheet_name)
        THEN [workbook |-> wb1, result |-> Err("SheetnameCannotBeBlank")]
        ELSE LET named == [wb1[n] EXCEPT !.name = sheet_name]
             IN  IF Len(records) < 1
                 THEN [workbook |-> [wb1 EXCEPT ![n] = named], result |-> Ok]
                 ELSE LET c0 == write(named.cells, 0, 0,
                                      StringCell("test-name", Format(TRUE, "General")))
                          c1 == WriteHeaders(c0, records[1].row_data, 0)
                          c2 == WriteRecords(c1, records, 1, 1)
                          sheet == [named EXCEPT !.cells = c2,
                                                 !.col_width = [kind |-> "Width",
                                                                width |-> COL0_WIDTH]]
                      IN  [workbook |-> [wb1 EXCEPT ![n] = sheet], result |-> Ok]

\* Variant of NameReused: the names are not compared.
NameReused_Unchecked(wb) == FALSE

\* Workbook::save() refuses a workbook in which two worksheets carry the
\* same name.
NameReused(wb) ==
    \E i, j \in 1..Len(wb) : i < j /\ wb[i].name = wb[j].name

NoFile == [kind |-> "NoFile"]

\* The outcomes of opening and writing the output file.
IoOutcomes == {"ok", "create_fails", "write_fails"}

\* process.rs 12-15 over Workbook::save(): the file is created, a workbook
\* without worksheets gets one, the names are checked, the bytes written.
close_workbook(wb, file, io) ==
    IF io = "create_fails"
    THEN [workbook |-> wb, disk |-> file, result |-> Err("IoError")]
    ELSE LET wb1 == IF Len(wb) = 0 THEN add_worksheet(wb) ELSE wb
         IN  IF NameReused(wb1)
             THEN [workbook |-> wb1, disk |-> [kind |-> "Truncated"],
                   result |-> Err("SheetnameReused")]
             ELSE IF io = "write_fails"
             THEN [workbook |-> wb1, disk |-> [kind |-> "Truncated"],
                   result |-> Err("IoError")]
             ELSE [workbook |-> wb1, disk |-> [kind |-> "File", sheets |-> wb1],
                   result |-> Ok]

(***************************************************************************)
(* Reading a saved workbook back.                                          *)
(***************************************************************************)
\* The value a reader gets from a cell: the stored string or number.
CellValue(cell) == IF cell.kind = "String" THEN cell.str ELSE cell.num

\* The number a cell shows under its number format.
CellShown(cell) ==
    IF cell.format.num_format = "0.00" THEN Round2(cell.num) ELSE cell.num

(***************************************************************************)
(* Options, paths and the files the application finds.                     *)
(***************************************************************************)
None == [kind |-> "None"]

Some(v) == [kind |-> "Some", value |-> v]

\* A path is the sequence of its components, and a component is a name
\* split at its dots: in/A.txt is << <<"in">>, <<"A", "txt">> >>.  The
\* text of the output box is read the same way, the empty text being the
\* empty sequence.
Root == <<"/">>

CurDir == <<"", "">>

ParentDir == <<"", "", "">>

\* PathBuf::new(): the empty path a cancelled file chooser returns.
EmptyPath == <<>>

\* Path::is_absolute
is_absolute(path) == Len(path) > 0 /\ path[1] = Root

\* The components of a path as Path::components yields them: a "." that
\* does not lead the path is skipped.
RECURSIVE components(_)
components(path) ==
    IF Len(path) = 0 THEN <<>>
    ELSE IF path[Len(path)] = CurDir /\ Len(path) > 1
    THEN components(SubSeq(path, 1, Len(path) - 1))
    ELSE Append(components(SubSeq(path, 1, Len(path) - 1)), path[Len(path)])

\* Path::parent, as main.rs 96-102 uses it: the components of the path
\* without the last one; the empty path when there is no component or the
\* last one is the root (Path::parent gives None, main.rs takes "").
parent(path) ==
    LET c == components(path)
    IN  IF Len(c) = 0 \/ c[Len(c)] = Root THEN <<>>
        ELSE SubSeq(c, 1, Len(c) - 1)

\* Path::file_name: the last component, if it is a normal one (not the
\* root, "." or "..").
file_name_of(path) ==
    LET c == components(path)
    IN  IF Len(c) = 0 \/ c[Len(c)] \in {Root, ParentDir, CurDir}
        THEN None
        ELSE Some(c[Len(c)])

\* PathBuf::push: an absolute path replaces the whole path, a relative one
\* is appended.
push(path, more) ==
    IF is_absolute(more) THEN components(more) ELSE components(path \o more)

\* Path::file_stem of a file name: the name up to its last dot; a name
\* without a dot, or whose only dot leads it, is its own stem.
file_stem(name) ==
    IF Len(name) = 1 \/ (Len(name) = 2 /\ name[1] = "") THEN name
    ELSE SubSeq(name, 1, Len(name) - 1)

\* PathBuf::set_extension: the path is cut after the stem of its file name
\* and the extension appended; a path without a file name is left as it
\* is.
set_extension(path, ext) ==
    LET c == components(path)
    IN  IF file_name_of(path) = None THEN path
        ELSE [c EXCEPT ![Len(c)] = file_stem(c[Len(c)]) \o <<ext>>]

\* main.rs 103-106: the path of a typed name in the input directory.
WithExtension(dir, txt, ext) == set_extension(push(push(EmptyPath, dir), txt), ext)

\* The input files the user can select: a file with the "DATA:" marker and
\* one well-formed row, a file with a malformed row, and a file named
\* without a directory that can no longer be read when it is processed.
PA == << <<"in">>, <<"A", "txt">> >>
PB == << <<"in">>, <<"B", "txt">> >>
PC == << <<"C", "txt">> >>

Selections == { <<>>, <<PA, PB>>, <<PB>>, <<PC>> }

\* fs::read_to_string (main.rs 59)
read_to_string(path) ==
    IF path = PA THEN OkData(<< <<"DATA:">>, <<"P", "55.346">> >>)
    ELSE IF path = PB THEN OkData(<< <<"DATA:">>, <<"L", "n/a">> >>)
    ELSE Err("NotFound")

\* What already exists: two output files, and the directory above the
\* input directory.
ExistingFiles == { << <<"in">>, <<"old", "xlsx">> >>,
                   << <<"out">>, <<"old", "xlsx">> >>,
                   << <<"in">>, ParentDir >> }

\* PathBuf::exists
exists(path) == path \in ExistingFiles

\* What the user can type into the output box: nothing, "old", "new.txt",
\* ".." and "/abs/new".
TypedTexts == { <<>>, << <<"old">> >>, << <<"new", "txt">> >>, <<ParentDir>>,
                << Root, <<"abs">>, <<"new">> >> }

\* What the save-file chooser can hand back.
ChosenPaths == { << <<"out">>, <<"old", "xlsx">> >>,
                 << <<"out">>, <<"new", "xlsx">> >> }

(***************************************************************************)
(* Configuration file (module config_store, used by main.rs 121-156 and    *)
(* 25-39; its body is not part of the sources and is modelled from the     *)
(* design document, section 6).                                            *)
(***************************************************************************)
\* ConfigStore::default()
ConfigDefault == [read_start_header |-> "DATA:"]

Missing == [kind |-> "Missing"]

Corrupt == [kind |-> "Corrupt"]

Stored(c) == [kind |-> "Config", value |-> c]

CfgFiles == {Missing, Corrupt} \cup {Stored(c) : c \in Configs}

\* config_store::try_read_config_path(config_name, false)
try_read_config_path(config_name, ok) ==
    IF ok THEN OkData(config_name) ELSE Err("NoConfigPath")

\* config_store::try_read_config(path)
try_read_config(file) ==
    IF file.kind = "Config" THEN OkData(file.value)
    ELSE IF file.kind = "Corrupt" THEN Err("DeserializeFailed")
    ELSE Err("ReadFailed")

\* config_store::try_write_config(path, config): the file afterwards and
\* the result; ok says whether the file system lets the write through.
try_write_config(file, cfg, ok) ==
    IF ok THEN [file |-> Stored(cfg), result |-> Ok]
    ELSE [file |-> file, result |-> Err("WriteFailed")]

\* One entry of the log of try_write_config calls.
WriteEntry(phase, cfg, ok) == [phase |-> phase, value |-> cfg, ok |-> ok]

\* What the GUI's config controls can hold: a configuration, or contents
\* that cannot be read back as one.
Unreadable == [kind |-> "Unreadable"]

GuiConfigs == {Stored(c) : c \in Configs} \cup {Unreadable}

\* GUI::get_config_store
get_config_store(held) ==
    IF held.kind = "Config" THEN OkData(held.value) ELSE Err("ConfigUnreadable")

\* GUI::set_config_store(config): what the controls hold afterwards and the
\* result; ok says whether the controls could be updated.
set_config_store(held, cfg, ok) ==
    IF ok THEN [held |-> Stored(cfg), result |-> Ok]
    ELSE [held |-> held, result |-> Err("ConfigNotSet")]

(***************************************************************************)
(* Main program (main.rs).                                                 *)
(***************************************************************************)
\* GUI::integrated_dialog_yes_no (gui.rs 253-258) on what
\* integrated_dialog_message_choice handed back: the index of the button
\* pressed, or None.
integrated_dialog_yes_no(choice) == choice.kind = "Some" /\ choice.value = 0

\* What a stretch of ensure_config_valid leaves when it reaches an alert or
\* returns: config_store, config_path, the file, the writes made, the alert
\* to show ("" for none) and where the function goes on after the alert
\* ("done" when it has returned).
Step(store, path, file, writes, alert, next) ==
    [config_store |-> store, config_path |-> path, file |-> file,
     writes |-> writes, alert |-> alert, at |-> next]

\* Variant of ensure_config_valid: a file that cannot be read is reported
\* and left as it is.
ensure_config_valid_KeepCorrupt(from, store, path, file, config_name, path_ok, ok) ==
    LET s0 == IF from = "entry" THEN ConfigDefault ELSE store
        p0 == IF from = "entry" THEN None ELSE path
        p == try_read_config_path(config_name, path_ok)
        w == try_write_config(file, s0, ok)
        entry == WriteEntry("startup", s0, ok)
    IN  IF from = "entry"
        THEN IF p.kind = "Err"
             THEN Step(s0, p0, file, <<>>, "NoConfigPath", "after_154")
             ELSE IF file.kind = "Missing"
             THEN IF w.result = Ok
                  THEN Step(s0, Some(p.data), w.file, <<entry>>, "", "done")
                  ELSE Step(s0, p0, w.file, <<entry>>,
                            "ConfigWriteFailed", "after_137")
             ELSE IF try_read_config(file).kind = "Ok"
             THEN Step(try_read_config(file).data, Some(p.data), file, <<>>,
                       "", "done")
             ELSE Step(s0, p0, file, <<>>, "ConfigUnreadable", "after_144")
        ELSE IF from = "after_144"
        THEN Step(s0, Some(config_name), file, <<>>, "", "done")
        ELSE IF from = "after_147"
        THEN Step(s0, Some(config_name), file, <<>>, "", "done")
        ELSE Step(s0, p0, file, <<>>, "", "done")

\* Variant of ensure_config_valid: the path of a missing file is remembered
\* whether or not the defaults could be written to it.
ensure_config_valid_Remember(from, store, path, file, config_name, path_ok, ok) ==
    LET s0 == IF from = "entry" THEN ConfigDefault ELSE store
        p0 == IF from = "entry" THEN None ELSE path
        p == try_read_config_path(config_name, path_ok)
        w == try_write_config(file, s0, ok)
        entry == WriteEntry("startup", s0, ok)
    IN  IF from = "entry"
        THEN IF p.kind = "Err"
             THEN Step(s0, p0, file, <<>>, "NoConfigPath", "after_154")
             ELSE IF file.kind = "Missing"
             THEN IF w.result = Ok
                  THEN Step(s0, Some(p.data), w.file, <<entry>>, "", "done")
                  ELSE Step(s0, Some(p.data), w.file, <<entry>>,
                            "ConfigWriteFailed", "after_137")
             ELSE IF try_read_config(file).kind = "Ok"
             THEN Step(try_read_config(file).data, Some(p.data), file, <<>>,
                       "", "done")
             ELSE Step(s0, p0, file, <<>>, "ConfigUnreadable", "after_144")
        ELSE IF from = "after_144"
        THEN IF w.result = Ok
             THEN Step(s0, Some(config_name), w.file, <<entry>>, "", "done")
             ELSE Step(s0, p0, w.file, <<entry>>, "ConfigWriteFailed",
                       "after_147")
        ELSE IF from = "after_147"
        THEN Step(s0, Some(config_name), file, <<>>, "", "done")
        ELSE Step(s0, p0, file, <<>>, "", "done")

\* ensure_config_valid (main.rs 121-156), one stretch at a time: from its
\* entry, where config_store and config_path are reset (main.rs 127-128),
\* or from the return of the alert of line 137, 144, 147 or 154, up to the
\* next alert or the end.  ok says whether a write goes through.
ensure_config_valid(from, store, path, file, config_name, path_ok, ok) ==
    LET s0 == IF from = "entry" THEN ConfigDefault ELSE store
        p0 == IF from = "entry" THEN None ELSE path
        p == try_read_config_path(config_name, path_ok)
        w == try_write_config(file, s0, ok)
        entry == WriteEntry("startup", s0, ok)
    IN  IF from = "entry"
        THEN IF p.kind = "Err"
             THEN Step(s0, p0, file, <<>>, "NoConfigPath", "after_154")
             ELSE IF file.kind = "Missing"
             THEN IF w.result = Ok
                  THEN Step(s0, Some(p.data), w.file, <<entry>>, "", "done")
                  ELSE Step(s0, p0, w.file, <<entry>>,
                            "ConfigWriteFailed", "after_137")
             ELSE IF try_read_config(file).kind = "Ok"
             THEN Step(try_read_config(file).data, Some(p.data), file, <<>>,
                       "", "done")
             ELSE Step(s0, p0, file, <<>>, "ConfigUnreadable", "after_144")
        ELSE IF from = "after_144"
        THEN IF w.result = Ok
             THEN Step(s0, Some(config_name), w.file, <<entry>>, "", "done")
             ELSE Step(s0, p0, w.file, <<entry>>, "ConfigWriteFailed",
                       "after_147")
        ELSE IF from = "after_147"
        THEN Step(s0, Some(config_name), file, <<>>, "", "done")
        ELSE Step(s0, p0, file, <<>>, "", "done")

\* The AppClosing arm (main.rs 25-39), one stretch at a time: from its
\* entry or from the return of the alert of line 28 or 31, up to the next
\* alert or GUI::quit().
app_closing(from, path, held, file, ok) ==
    LET g == get_config_store(held)
        w == try_write_config(file, g.data, ok)
    IN  IF from = "entry" /\ path.kind = "Some"
        THEN IF g.kind = "Err"
             THEN [file |-> file, writes |-> <<>>, alert |-> "ConfigNotRead",
                   at |-> "after_28"]
             ELSE [file |-> w.file,
                   writes |-> <<WriteEntry("closing", g.data, ok)>>,
                   alert |-> IF w.result = Ok THEN "" ELSE "ConfigNotSaved",
                   at |-> IF w.result = Ok THEN "done" ELSE "after_31"]
        ELSE [file |-> file, writes |-> <<>>, alert |-> "", at |-> "done"]

\* The ConfigReset arm (main.rs 40-44) up to its alert or its end.
config_reset(held, ok) ==
    LET r == set_config_store(held, ConfigDefault, ok)
    IN  [held |-> r.held,
         alert |-> IF r.result = Ok THEN "" ELSE "ConfigNotReset",
         at |-> IF r.result = Ok THEN "done" ELSE "after_42"]

\* validate_input_paths (main.rs 76-82): the answer, and the alert shown
\* before it is returned.
validate_input_paths(input_paths) ==
    IF Len(input_paths) > 0 THEN [valid |-> TRUE, alert |-> ""]
    ELSE [valid |-> FALSE, alert |-> "NoInputFiles"]

\* What validate_output_path comes to before any dialog: it returns a
\* result, shows an alert and then returns one, or asks whether pathbuf
\* may be overwritten.
Validated(kind, res, alert, pathbuf) ==
    [kind |-> kind, result |-> res, alert |-> alert, pathbuf |-> pathbuf]

\* Variant of validate_output_path: the path derived from a typed name is
\* returned without the question being put.
validate_output_path_Unasked(output_path, txt, input_paths) ==
    IF Len(txt) = 0
    THEN Validated("Alert", Err("()"), "NoOutputPath", EmptyPath)
    ELSE IF output_path.kind = "Some"
    THEN Validated("Return", OkData(output_path.value), "", EmptyPath)
    ELSE LET input_dir == IF Len(input_paths) > 0 THEN parent(input_paths[1])
                          ELSE EmptyPath
             output_pathbuf == WithExtension(input_dir, txt, "xlsx")
         IN  IF input_dir # EmptyPath
             THEN Validated("Return", OkData(output_pathbuf), "", output_pathbuf)
             ELSE Validated("Alert", Err("()"), "NoInputDir", EmptyPath)

\* validate_output_path (main.rs 86-117) up to its first dialog.
validate_output_path(output_path, txt, input_paths) ==
    IF Len(txt) = 0
    THEN Validated("Alert", Err("()"), "NoOutputPath", EmptyPath)
    ELSE IF output_path.kind = "Some"
    THEN Validated("Return", OkData(output_path.value), "", EmptyPath)
    ELSE LET input_dir == IF Len(input_paths) > 0 THEN parent(input_paths[1])
                          ELSE EmptyPath
             output_pathbuf == WithExtension(input_dir, txt, "xlsx")
         IN  IF input_dir # EmptyPath
             THEN IF ~exists(output_pathbuf)
                  THEN Validated("Return", OkData(output_pathbuf), "",
                                 output_pathbuf)
                  ELSE Validated("Ask", Err("()"), "", output_pathbuf)
             ELSE Validated("Alert", Err("()"), "NoInputDir", EmptyPath)

\* validate_output_path after the question (main.rs 107-109): the path if
\* the answer is yes, Err otherwise.
overwrite_answered(output_pathbuf, choice) ==
    IF integrated_dialog_yes_no(choice) THEN OkData(output_pathbuf)
    ELSE Err("()")

\* The trace a handler leaves: the event handled, the alerts it showed,
\* whether the yes/no question was put and how it was answered, what the
\* output validation returned, whether processing went ahead, the paths
\* selected when it was handled, the files read, the paths handed to the
\* parser, and the number of configuration writes.
Trace(kind) ==
    [kind |-> kind, alerts |-> <<>>, asked |-> FALSE, yes |-> FALSE,
     out |-> None, passed |-> FALSE, inputs |-> <<>>, reads |-> <<>>,
     parsed |-> <<>>, wrote |-> 0]

\* The locals of the Process arm: the paths fetched from the GUI (main.rs
\* 47-48), the answer of validate_input_paths and the path the question
\* is about.
Frame(input_paths, output_path, input_valid, pathbuf) ==
    [input_paths |-> input_paths, output_path |-> output_path,
     input_valid |-> input_valid, pathbuf |-> pathbuf]

NoFrame == Frame(<<>>, None, FALSE, EmptyPath)

\* What the Process arm comes to after the validations: whether it went
\* ahead, main's config_store afterwards, how it ended ("skipped" by the
\* continue of line 53, "panicked" in an unwrap, or "done"), the files
\* read, the paths parsed and, when the parser was called, its arguments
\* and its result.
Handled(passed, store, outcome, reads, parsed, name, text, parse) ==
    [passed |-> passed, config_store |-> store, outcome |-> outcome,
     reads |-> reads, parsed |-> parsed, name |-> name, text |-> text,
     parse |-> parse]

\* Variant of process: the configuration is taken from the GUI before the
\* results of the validations are looked at.
process_SnapshotFirst(input_valid, out, input_paths, held, store) ==
    LET g == get_config_store(held)
        first == IF Len(input_paths) > 0 THEN input_paths[1] ELSE EmptyPath
        f == read_to_string(first)
        name == file_name_of(first)
    IN  IF g.kind = "Err"
        THEN Handled(FALSE, store, "panicked", <<>>, <<>>, <<>>, <<>>, NoResult)
        ELSE IF ~input_valid \/ out.kind = "Err"
        THEN Handled(FALSE, g.data, "skipped", <<>>, <<>>, <<>>, <<>>, NoResult)
        ELSE IF Len(input_paths) = 0
        THEN Handled(TRUE, g.data, "panicked", <<>>, <<>>, <<>>, <<>>, NoResult)
        ELSE IF f.kind = "Err" \/ name = None
        THEN Handled(TRUE, g.data, "panicked", <<first>>, <<>>, <<>>, <<>>,
                     NoResult)
        ELSE Handled(TRUE, g.data, "done", <<first>>, <<first>>, name.value,
                     f.data, read_data_from_file(name.value, f.data, g.data))

\* Variant of process: the answer of validate_input_paths is not looked at.
process_NoInputCheck(input_valid, out, input_paths, held, store) ==
    LET g == get_config_store(held)
        first == IF Len(input_paths) > 0 THEN input_paths[1] ELSE EmptyPath
        f == read_to_string(first)
        name == file_name_of(first)
    IN  IF out.kind = "Err"
        THEN Handled(FALSE, store, "skipped", <<>>, <<>>, <<>>, <<>>, NoResult)
        ELSE IF g.kind = "Err"
        THEN Handled(TRUE, store, "panicked", <<>>, <<>>, <<>>, <<>>, NoResult)
        ELSE IF Len(input_paths) = 0
        THEN Handled(TRUE, g.data, "panicked", <<>>, <<>>, <<>>, <<>>, NoResult)
        ELSE IF f.kind = "Err" \/ name = None
        THEN Handled(TRUE, g.data, "panicked", <<first>>, <<>>, <<>>, <<>>,
                     NoResult)
        ELSE Handled(TRUE, g.data, "done", <<first>>, <<first>>, name.value,
                     f.data, read_data_from_file(name.value, f.data, g.data))

\* The Process arm after the validations (main.rs 53-67): the continue of
\* line 53, or the configuration is fetched from the GUI, the first input
\* file read and handed to the parser; an unwrap that fails panics.
process(input_valid, out, input_paths, held, store) ==
    LET g == get_config_store(held)
        first == IF Len(input_paths) > 0 THEN input_paths[1] ELSE EmptyPath
        f == read_to_string(first)
        name == file_name_of(first)
    IN  IF ~input_valid \/ out.kind = "Err"
        THEN Handled(FALSE, store, "skipped", <<>>, <<>>, <<>>, <<>>, NoResult)
        ELSE IF g.kind = "Err"
        THEN Handled(TRUE, store, "panicked", <<>>, <<>>, <<>>, <<>>, NoResult)
        ELSE IF Len(input_paths) = 0
        THEN Handled(TRUE, g.data, "panicked", <<>>, <<>>, <<>>, <<>>, NoResult)
        ELSE IF f.kind = "Err" \/ name = None
        THEN Handled(TRUE, g.data, "panicked", <<first>>, <<>>, <<>>, <<>>,
                     NoResult)
        ELSE Handled(TRUE, g.data, "done", <<first>>, <<first>>, name.value,
                     f.data, read_data_from_file(name.value, f.data, g.data))

(***************************************************************************)
(* Integrated dialog (gui.rs 219-307).                                     *)
(***************************************************************************)
\* The groups as GUI::initialize leaves them: only the dialog group is
\* deactivated (gui.rs 440).
InitialGroups == [io_controls |-> TRUE, config |-> TRUE, dialog |-> FALSE]

\* GUI::activate_dialog (gui.rs 232-236)
activate_dialog(g) ==
    [g EXCEPT !.io_controls = FALSE, !.config = FALSE, !.dialog = TRUE]

\* GUI::clear_integrated_dialog (gui.rs 221-228)
clear_integrated_dialog(g) ==
    [g EXCEPT !.io_controls = TRUE, !.config = TRUE, !.dialog = FALSE]

\* The options of a message (gui.rs 241) and of a yes/no question (gui.rs
\* 254).
MessageOptions == <<"Ok">>

YesNoOptions == <<"yes", "no">>

\* The option lists the dialog is called with: none, and those two.
OptionLists == { <<>>, MessageOptions, YesNoOptions }

\* The call in progress: where it stands, its options, the index stored by
\* a button callback, what it returned; and the calls that have returned.
DialogState(stage, options, pressed, ret, log) ==
    [at |-> stage, options |-> options, pressed |-> pressed, ret |-> ret,
     log |-> log]

NoDialog == DialogState("idle", <<>>, None, None, <<>>)

\* integrated_dialog_message_choice after activate_dialog, up to its wait
\* loop (gui.rs 269-297): with no options it returns None at once,
\* otherwise it has a button per option and waits.
open_dialog(options, log) ==
    IF Len(options) = 0
    THEN DialogState("returned", options, None, None, log)
    ELSE DialogState("waiting", options, None, None, log)

(***************************************************************************)
(* Specifications.                                                         *)
(***************************************************************************)
ParserIdle ==
    /\ file_name = <<"A", "txt">>
    /\ raw_text = <<>>
    /\ config = [read_start_header |-> "DATA:"]
    /\ parse_result = NoResult

ExporterIdle ==
    /\ data = <<>>
    /\ workbook = get_workbook
    /\ result = Returned("none", NoResult)
    /\ last_sheet_name = ""
    /\ disk = NoFile
    /\ calls = <<>>

DialogIdle ==
    /\ groups = InitialGroups
    /\ dlg = NoDialog

MainIdle ==
    /\ pc = "startup"
    /\ at = "idle"
    /\ queue = <<>>
    /\ frame = NoFrame
    /\ cfg_path_ok = TRUE
    /\ cfg_file0 = Missing
    /\ cfg_file = Missing
    /\ config_path = None
    /\ gui_config = Stored(ConfigDefault)
    /\ last_input_paths = <<>>
    /\ last_output_path = None
    /\ output_txt = <<>>
    /\ confirmed = None
    /\ cfg_writes = <<>>
    /\ ev = Trace("None")

\* One file is handed to the parser.
InitParse ==
    /\ file_name \in FileNames
    /\ raw_text \in Texts
    /\ config \in Configs
    /\ parse_result = NoResult
    /\ ExporterIdle
    /\ MainIdle
    /\ DialogIdle

Parse ==
    /\ parse_result = NoResult
    /\ parse_result' = read_data_from_file(file_name, raw_text, config)
    /\ UNCHANGED <<file_name, raw_text, config, data, workbook, result,
                   last_sheet_name, disk, calls>>
    /\ UNCHANGED <<mainVars, dlgVars>>

NextParse == Parse

SpecParse == InitParse /\ [][NextParse]_vars

\* One batch is exported: a fresh workbook, any number of sheets written
\* from the batch, then the workbook saved (process.rs 17-19: close_workbook
\* is called after the calls of write_output_to_sheet, however many).
Init ==
    /\ ParserIdle
    /\ data \in Batches
    /\ workbook = get_workbook
    /\ result = Returned("none", NoResult)
    /\ last_sheet_name = ""
    /\ disk = NoFile
    /\ calls = <<>>
    /\ MainIdle
    /\ DialogIdle

WriteOutputToSheet ==
    /\ result.op # "close"
    /\ Len(workbook) < MaxSheets
    /\ \E sheet_name \in SheetNames :
          LET r == write_output_to_sheet(workbook, data, sheet_name)
          IN  /\ workbook' = r.workbook
              /\ result' = Returned("write", r.result)
              /\ last_sheet_name' = sheet_name
              /\ calls' = Append(calls, r.result)
    /\ UNCHANGED <<file_name, raw_text, config, parse_result, data, disk>>
    /\ UNCHANGED <<mainVars, dlgVars>>

CloseWorkbook ==
    /\ result.op # "close"
    /\ \E io \in IoOutcomes :
          LET r == close_workbook(workbook, disk, io)
          IN  /\ workbook' = r.workbook
              /\ disk' = r.disk
              /\ result' = Returned("close", r.result)
    /\ UNCHANGED <<file_name, raw_text, config, parse_result, data,
                   last_sheet_name, calls>>
    /\ UNCHANGED <<mainVars, dlgVars>>

Next == WriteOutputToSheet \/ CloseWorkbook

Spec == Init /\ [][Next]_vars

\* The integrated dialog is called any number of times; each call runs
\* integrated_dialog_message_choice (gui.rs 267-307) step by step.
InitDialog ==
    /\ ParserIdle
    /\ ExporterIdle
    /\ MainIdle
    /\ DialogIdle

\* gui.rs 268-294: the dialog is activated, then an empty list of options
\* returns None at once; otherwise one button per option is created.
DialogCall ==
    /\ dlg.at = "idle"
    /\ Len(dlg.log) < MaxCalls
    /\ \E options \in OptionLists :
          /\ groups' = activate_dialog(groups)
          /\ dlg' = open_dialog(options, dlg.log)
    /\ UNCHANGED <<coreVars, mainVars>>

\* gui.rs 285-291: the callback of button idx stores its index.
ButtonPressed ==
    /\ dlg.at = "waiting"
    /\ groups.dialog
    /\ \E idx \in 0..(Len(dlg.options) - 1) :
          dlg' = [dlg EXCEPT !.pressed = Some(idx)]
    /\ UNCHANGED <<coreVars, mainVars, groups>>

\* gui.rs 299-306: app.wait() returned true and an index is stored: the
\* loop is left, the dialog cleared and the index returned.
DialogChosen ==
    /\ dlg.at = "waiting"
    /\ dlg.pressed.kind = "Some"
    /\ groups' = clear_integrated_dialog(groups)
    /\ dlg' = [dlg EXCEPT !.at = "returned", !.ret = dlg.pressed]
    /\ UNCHANGED <<coreVars, mainVars>>

\* gui.rs 299-306: app.wait() returned false (the application is quitting)
\* before the loop saw an index: the dialog is cleared, None returned.
DialogAbandoned ==
    /\ dlg.at = "waiting"
    /\ groups' = clear_integrated_dialog(groups)
    /\ dlg' = [dlg EXCEPT !.at = "returned", !.ret = None]
    /\ UNCHANGED <<coreVars, mainVars>>

\* The caller goes on.
DialogReturn ==
    /\ dlg.at = "returned"
    /\ dlg' = DialogState("idle", <<>>, None, None,
                          Append(dlg.log, [options |-> dlg.options, ret |-> dlg.ret]))
    /\ UNCHANGED <<coreVars, mainVars, groups>>

NextDialog ==
    DialogCall \/ ButtonPressed \/ DialogChosen \/ DialogAbandoned \/ DialogReturn

SpecDialog == InitDialog /\ [][NextDialog]_vars

\* The application: startup, then the event loop of main (main.rs 8-71).
\* A handler runs up to the alert or question it shows and goes on when
\* the dialog has returned; while the dialog waits (gui.rs 299) the groups
\* are in dialog mode, the buttons of the dialog and the window's close
\* button still work, and what they send is received after the handler.
\* Where the path of the configuration file cannot be determined no file is
\* looked at, and the model starts without one.
InitMain ==
    /\ ParserIdle
    /\ ExporterIdle
    /\ DialogIdle
    /\ pc = "startup"
    /\ at = "idle"
    /\ queue = <<>>
    /\ frame = NoFrame
    /\ cfg_path_ok \in BOOLEAN
    /\ cfg_file0 \in (IF cfg_path_ok THEN CfgFiles ELSE {Missing})
    /\ cfg_file = cfg_file0
    /\ config_path = None
    /\ gui_config = Stored(ConfigDefault)
    /\ last_input_paths = <<>>
    /\ last_output_path = None
    /\ output_txt = <<>>
    /\ confirmed = None
    /\ cfg_writes = <<>>
    /\ ev = Trace("None")

\* The handler calls integrated_dialog_message_choice with the options
\* (gui.rs 267-297) and waits in it.
Dialog(options) ==
    /\ groups' = activate_dialog(groups)
    /\ dlg' = open_dialog(options, <<>>)

\* The handler ends, or goes on, without a dialog on screen.
NoDialogOpen ==
    /\ groups' = groups
    /\ dlg' = NoDialog

\* The handler is entered (nothing is waiting) or goes on after its dialog.
Entered == at = "idle"

Resumed(labels) == at \in labels /\ dlg.at = "returned"

\* The trace with one more alert, if there is one.
Alerted(trace, alert) ==
    IF alert = "" THEN trace ELSE [trace EXCEPT !.alerts = Append(@, alert)]

\* main.rs 13-21: ensure_config_valid, then the GUI is given the
\* configuration; the result of set_config_store is dropped.
Startup ==
    /\ pc = "startup"
    /\ Entered \/ Resumed({"after_137", "after_144", "after_147", "after_154"})
    /\ \E ok \in BOOLEAN, set_ok \in BOOLEAN :
          LET r == ensure_config_valid(IF Entered THEN "entry" ELSE at, config,
                                       config_path, cfg_file, "config",
                                       cfg_path_ok, ok)
              tr == IF Entered THEN Trace("Startup") ELSE ev
          IN  /\ config' = r.config_store
              /\ config_path' = r.config_path
              /\ cfg_file' = r.file
              /\ cfg_writes' = cfg_writes \o r.writes
              /\ ev' = [Alerted(tr, r.alert) EXCEPT !.wrote = @ + Len(r.writes)]
              /\ IF r.at = "done"
                 THEN /\ gui_config' =
                            set_config_store(gui_config, r.config_store, set_ok).held
                      /\ pc' = "loop"
                      /\ at' = "idle"
                      /\ NoDialogOpen
                 ELSE /\ UNCHANGED <<gui_config, pc>>
                      /\ at' = r.at
                      /\ Dialog(MessageOptions)
    /\ UNCHANGED <<file_name, raw_text, parse_result, data, workbook, result,
                   last_sheet_name, disk, calls, queue, frame, cfg_path_ok,
                   cfg_file0, last_input_paths, last_output_path, output_txt,
                   confirmed>>

\* The main loop is in gui.wait() (main.rs 23) with the controls active:
\* callbacks of the controls can run.
Waiting == pc = "loop" /\ at = "idle" /\ groups.io_controls

\* gui.rs 475-504: the input button's callback stores the selection.
SelectInputs ==
    /\ Waiting
    /\ \E sel \in Selections : last_input_paths' = sel
    /\ ev' = Trace("User")
    /\ UNCHANGED <<coreVars, pc, at, queue, frame, cfg_path_ok, cfg_file0,
                   cfg_file, config_path, gui_config, last_output_path,
                   output_txt, confirmed, cfg_writes, dlgVars>>

\* gui.rs 506-534: the output button's callback.  The chooser fails (the
\* path is dropped, the text stays), is cancelled (an empty path), or hands
\* back a path; under SaveAsConfirm (gui.rs 516) it hands back an existing
\* path only when the user agreed to overwrite it.
ChooseOutput ==
    /\ Waiting
    /\ \/ /\ last_output_path' = None
          /\ UNCHANGED output_txt
          /\ confirmed' = None
       \/ /\ last_output_path' = Some(EmptyPath)
          /\ output_txt' = << <<"Invalid output filename">> >>
          /\ confirmed' = None
       \/ \E path \in ChosenPaths :
             /\ last_output_path' = Some(path)
             /\ output_txt' = <<file_name_of(path).value>>
             /\ confirmed' = IF exists(path) THEN Some(path) ELSE None
    /\ ev' = Trace("User")
    /\ UNCHANGED <<coreVars, pc, at, queue, frame, cfg_path_ok, cfg_file0,
                   cfg_file, config_path, gui_config, last_input_paths,
                   cfg_writes, dlgVars>>

\* gui.rs 402-410: the output box is a text editor the user can type in.
TypeOutput ==
    /\ Waiting
    /\ \E txt \in TypedTexts : output_txt' = txt
    /\ ev' = Trace("User")
    /\ UNCHANGED <<coreVars, pc, at, queue, frame, cfg_path_ok, cfg_file0,
                   cfg_file, config_path, gui_config, last_input_paths,
                   last_output_path, confirmed, cfg_writes, dlgVars>>

\* The user edits a field of the configuration shown by the GUI.
EditConfig ==
    /\ Waiting
    /\ groups.config
    /\ \E held \in GuiConfigs : gui_config' = held
    /\ ev' = Trace("EditConfig")
    /\ UNCHANGED <<coreVars, pc, at, queue, frame, cfg_path_ok, cfg_file0,
                   cfg_file, config_path, last_input_paths, last_output_path,
                   output_txt, confirmed, cfg_writes, dlgVars>>

\* gui.rs 416: the Process button sends Process to main.
PressProcess ==
    /\ Waiting
    /\ Len(queue) < MaxQueue
    /\ queue' = Append(queue, "Process")
    /\ UNCHANGED <<coreVars, pc, at, frame, cfg_path_ok, cfg_file0, cfg_file,
                   config_path, gui_config, last_input_paths, last_output_path,
                   output_txt, confirmed, cfg_writes, ev, dlgVars>>

\* The user asks for the configuration to be reset and ConfigReset is sent
\* to main.  gui.rs declares the message (gui.rs 103) and has no widget
\* that sends it; the sender is taken from the design document, which
\* counts ConfigReset among the events of the user interface.
RequestReset ==
    /\ Waiting
    /\ groups.config
    /\ Len(queue) < MaxQueue
    /\ queue' = Append(queue, "ConfigReset")
    /\ UNCHANGED <<coreVars, pc, at, frame, cfg_path_ok, cfg_file0, cfg_file,
                   config_path, gui_config, last_input_paths, last_output_path,
                   output_txt, confirmed, cfg_writes, ev, dlgVars>>

\* gui.rs 537: closing the window sends AppClosing to main; the window is
\* not part of a group, so this works while a dialog waits as well.
CloseWindow ==
    /\ Waiting \/ (pc \in {"startup", "loop"} /\ dlg.at = "waiting")
    /\ Len(queue) < MaxQueue
    /\ queue' = Append(queue, "AppClosing")
    /\ UNCHANGED <<coreVars, pc, at, frame, cfg_path_ok, cfg_file0, cfg_file,
                   config_path, gui_config, last_input_paths, last_output_path,
                   output_txt, confirmed, cfg_writes, ev, dlgVars>>

\* recv.recv() hands over the message (main.rs 24).
Received(message) ==
    /\ Entered
    /\ queue # <<>>
    /\ Head(queue) = message

\* main.rs 25-39: the window was closed.  The configuration is saved if
\* there is a path to save it to, then GUI::quit() ends the loop.
AppClosing ==
    /\ pc = "loop"
    /\ Received("AppClosing") \/ Resumed({"after_28", "after_31"})
    /\ \E ok \in BOOLEAN :
          LET r == app_closing(IF Entered THEN "entry" ELSE at, config_path,
                               gui_config, cfg_file, ok)
              tr == IF Entered THEN Trace("AppClosing") ELSE ev
          IN  /\ cfg_file' = r.file
              /\ cfg_writes' = cfg_writes \o r.writes
              /\ ev' = [Alerted(tr, r.alert) EXCEPT !.wrote = @ + Len(r.writes)]
              /\ IF r.at = "done"
                 THEN /\ pc' = "quit"
                      /\ at' = "idle"
                      /\ NoDialogOpen
                 ELSE /\ pc' = pc
                      /\ at' = r.at
                      /\ Dialog(MessageOptions)
    /\ queue' = IF Entered THEN Tail(queue) ELSE queue
    /\ UNCHANGED <<coreVars, frame, cfg_path_ok, cfg_file0, config_path,
                   gui_config, last_input_paths, last_output_path, output_txt,
                   confirmed>>

\* Variant of ConfigReset: the reset configuration is saved at once.
ConfigReset_Saving ==
    /\ pc = "loop"
    /\ \/ /\ Received("ConfigReset")
          /\ \E ok \in BOOLEAN :
                LET r == config_reset(gui_config, ok)
                    w == try_write_config(cfg_file, ConfigDefault, ok)
                IN  /\ gui_config' = r.held
                    /\ cfg_file' = w.file
                    /\ cfg_writes' = Append(cfg_writes,
                                            WriteEntry("reset", ConfigDefault, ok))
                    /\ ev' = Alerted(Trace("ConfigReset"), r.alert)
                    /\ IF r.at = "done"
                       THEN at' = "idle" /\ NoDialogOpen
                       ELSE at' = r.at /\ Dialog(MessageOptions)
          /\ queue' = Tail(queue)
       \/ /\ Resumed({"after_42"})
          /\ at' = "idle"
          /\ NoDialogOpen
          /\ UNCHANGED <<gui_config, cfg_file, cfg_writes, ev, queue>>
    /\ UNCHANGED <<coreVars, pc, frame, cfg_path_ok, cfg_file0, config_path,
                   last_input_paths, last_output_path, output_txt, confirmed>>

\* main.rs 40-44: the configuration is reset.
ConfigReset ==
    /\ pc = "loop"
    /\ \/ /\ Received("ConfigReset")
          /\ \E ok \in BOOLEAN :
                LET r == config_reset(gui_config, ok)
                IN  /\ gui_config' = r.held
                    /\ ev' = Alerted(Trace("ConfigReset"), r.alert)
                    /\ IF r.at = "done"
                       THEN at' = "idle" /\ NoDialogOpen
                       ELSE at' = r.at /\ Dialog(MessageOptions)
          /\ queue' = Tail(queue)
       \/ /\ Resumed({"after_42"})
          /\ at' = "idle"
          /\ NoDialogOpen
          /\ UNCHANGED <<gui_config, ev, queue>>
    /\ UNCHANGED <<coreVars, pc, frame, cfg_path_ok, cfg_file0, cfg_file,
                   config_path, cfg_writes, last_input_paths, last_output_path,
                   output_txt, confirmed>>

\* main.rs 53-67 with the locals fr, the result out of validate_output_path
\* and the trace tr so far.  After a run the selection is cleared (gui.rs
\* 175-196); an unwrap that fails ends the program.
ProcessRun(fr, out, tr) ==
    LET r == process(fr.input_valid, out, fr.input_paths, gui_config, config)
    IN  /\ ev' = [tr EXCEPT !.out = out, !.passed = r.passed,
                            !.reads = r.reads, !.parsed = r.parsed]
        /\ config' = r.config_store
        /\ pc' = IF r.outcome = "panicked" THEN "panicked" ELSE pc
        /\ at' = "idle"
        /\ frame' = NoFrame
        /\ NoDialogOpen
        /\ IF r.outcome = "done"
           THEN /\ file_name' = r.name
                /\ raw_text' = r.text
                /\ parse_result' = r.parse
                /\ last_input_paths' = <<>>
                /\ last_output_path' = None
                /\ output_txt' = <<>>
                /\ confirmed' = None
           ELSE UNCHANGED <<file_name, raw_text, parse_result,
                            last_input_paths, last_output_path, output_txt,
                            confirmed>>

\* main.rs 51: validate_output_path is called, up to its dialog if it
\* shows one.
ProcessOutput(fr, tr) ==
    LET v == validate_output_path(fr.output_path, output_txt, last_input_paths)
    IN  IF v.kind = "Return"
        THEN ProcessRun(fr, v.result, tr)
        ELSE /\ frame' = [fr EXCEPT !.pathbuf = v.pathbuf]
             /\ ev' = IF v.kind = "Ask" THEN [tr EXCEPT !.asked = TRUE]
                      ELSE Alerted(tr, v.alert)
             /\ at' = IF v.kind = "Ask" THEN "after_109"
                      ELSE IF v.alert = "NoOutputPath" THEN "after_89"
                      ELSE "after_111"
             /\ Dialog(IF v.kind = "Ask" THEN YesNoOptions ELSE MessageOptions)
             /\ UNCHANGED <<file_name, raw_text, parse_result, config, pc,
                            last_input_paths, last_output_path, output_txt,
                            confirmed>>

\* main.rs 45-68: a Process request.
Process ==
    /\ pc = "loop"
    /\ \/ /\ Received("Process")
          /\ queue' = Tail(queue)
          /\ LET v == validate_input_paths(last_input_paths)
                 fr == Frame(last_input_paths, last_output_path, v.valid,
                             EmptyPath)
                 tr == [Trace("Process") EXCEPT !.inputs = last_input_paths]
             IN  IF v.alert = ""
                 THEN ProcessOutput(fr, tr)
                 ELSE /\ frame' = fr
                      /\ ev' = Alerted(tr, v.alert)
                      /\ at' = "after_79"
                      /\ Dialog(MessageOptions)
                      /\ UNCHANGED <<file_name, raw_text, parse_result, config,
                                     pc, last_input_paths, last_output_path,
                                     output_txt, confirmed>>
       \/ /\ Resumed({"after_79"})
          /\ ProcessOutput(frame, ev)
          /\ UNCHANGED queue
       \/ /\ Resumed({"after_89", "after_111"})
          /\ ProcessRun(frame, Err("()"), ev)
          /\ UNCHANGED queue
       \/ /\ Resumed({"after_109"})
          /\ ProcessRun(frame, overwrite_answered(frame.pathbuf, dlg.ret),
                        [ev EXCEPT !.yes = integrated_dialog_yes_no(dlg.ret)])
          /\ UNCHANGED queue
    /\ UNCHANGED <<data, workbook, result, last_sheet_name, disk, calls,
                   cfg_path_ok, cfg_file0, cfg_file, config_path, gui_config,
                   cfg_writes>>

\* The program as the sources have it: no widget of gui.rs sends
\* ConfigReset, so the arm of main.rs 40-44 is never entered.
NextMain ==
    \/ Startup
    \/ SelectInputs
    \/ ChooseOutput
    \/ TypeOutput
    \/ EditConfig
    \/ PressProcess
    \/ CloseWindow
    \/ Process
    \/ AppClosing
    \/ ButtonPressed
    \/ DialogChosen

SpecMain == InitMain /\ [][NextMain]_vars

\* The program with a user interface that also sends ConfigReset, as the
\* design document has it: what is said of ConfigReset events is checked
\* here.
NextReset ==
    \/ NextMain
    \/ RequestReset
    \/ ConfigReset

SpecReset == InitMain /\ [][NextReset]_vars

(***************************************************************************)
(* Record Parser properties (under SpecParse).                             *)
(***************************************************************************)
Parsed == parse_result # NoResult

\* The configured marker is a line of the text.
HasMarker == \E i \in 1..Len(raw_text) : raw_text[i] = <<config.read_start_header>>

\* Position of the first marker line (only used when HasMarker).
FirstMarker ==
    CHOOSE i \in 1..Len(raw_text) :
        /\ raw_text[i] = <<config.read_start_header>>
        /\ \A j \in 1..(i - 1) : raw_text[j] # <<config.read_start_header>>

\* A non-blank line that has no label, no value token, or a value token
\* that is not a number.
Malformed(line) ==
    /\ Len(line) > 0
    /\ (Len(line) < 2 \/ line[Len(line)] \notin {"55.346", "60.0"})

\* Positions after the marker of the malformed lines.
MalformedAfterMarker ==
    {i \in (FirstMarker + 1)..Len(raw_text) : Malformed(raw_text[i])}

\* The non-blank lines after the marker, in file order.
DataLines ==
    SelectSeq(SubSeq(raw_text, FirstMarker + 1, Len(raw_text)),
              LAMBDA l : Len(l) > 0)

\* C1: when the text holds the marker and every non-blank line after it is
\* a well-formed label/number line, parse returns Ok(Data) with exactly one
\* row per such line, in file order, each with the line's label and number;
\* with no such line the Data has an empty row_data.
C1_WellFormedRows ==
    (Parsed /\ HasMarker /\ MalformedAfterMarker = {}) =>
        /\ parse_result.kind = "Ok"
        /\ Len(parse_result.data.row_data) = Len(DataLines)
        /\ \A k \in 1..Len(DataLines) :
              /\ parse_result.data.row_data[k].header = DataLines[k][1]
              /\ parse_result.data.row_data[k].value
                    = (IF DataLines[k][2] = "55.346" THEN 55346 ELSE 60000)

\* Two different well-formed lines after the marker were parsed into two rows.
C1_Witness ==
    /\ Parsed /\ HasMarker /\ MalformedAfterMarker = {}
    /\ Len(DataLines) = 2
    /\ DataLines[1] # DataLines[2]
    /\ parse_result.kind = "Ok"

\* C2: when no line of the text is the configured marker, parse fails with
\* MarkerNotFound and returns no Data, whatever the lines are.
C2_MarkerNotFound ==
    (Parsed /\ ~HasMarker) =>
        /\ parse_result = Err(MarkerNotFound)
        /\ "data" \notin DOMAIN parse_result

\* A text with data lines and the other marker, but not the configured one.
C2_Witness ==
    /\ Parsed /\ ~HasMarker
    /\ \E i \in 1..Len(raw_text) : WellFormed(raw_text[i])
    /\ \E i \in 1..Len(raw_text) : Len(raw_text[i]) = 1
    /\ parse_result.kind = "Err"

\* C3: when the text holds the marker and a malformed line follows it, parse
\* fails the whole file with MalformedRow carrying the position and the
\* content of the first malformed line, and returns no Data: the line is not
\* skipped, whatever precedes or follows it.
C3_MalformedRow ==
    (Parsed /\ HasMarker /\ MalformedAfterMarker # {}) =>
        LET i == CHOOSE i \in MalformedAfterMarker :
                    \A j \in MalformedAfterMarker : i <= j
        IN  /\ parse_result = Err(MalformedRow(i, raw_text[i]))
            /\ "data" \notin DOMAIN parse_result

\* A malformed line between two well-formed lines was reported.
C3_Witness ==
    /\ Parsed /\ HasMarker
    /\ \E i \in MalformedAfterMarker :
          /\ i - 1 > FirstMarker /\ WellFormed(raw_text[i - 1])
          /\ i + 1 <= Len(raw_text) /\ WellFormed(raw_text[i + 1])
          /\ parse_result.kind = "Err"
          /\ parse_result.err.kind = "MalformedRow"
          /\ parse_result.err.line_number = i

(***************************************************************************)
(* Batch and exporter properties (under Spec).                             *)
(***************************************************************************)
\* Every record has the header sequence of the first one (hence its length).
SameSchema(records) ==
    \A j \in 2..Len(records) : HeaderSeq(records[j]) = HeaderSeq(records[1])

\* The last call was write_output_to_sheet and it returned Ok.
WriteSucceeded == result.op = "write" /\ result.res = Ok

\* The worksheet the last write_output_to_sheet added.
LastSheet == workbook[Len(workbook)]

HasCells(sheet) == DOMAIN sheet.cells # {}

\* C4: a batch passes the alignment stage, and so reaches a successful
\* export, if and only if every record after the first has the row count and
\* header sequence of the first; here the half the exporter can break:
\* a batch whose export succeeded is schema-consistent.
C4_AlignDecidesExport == WriteSucceeded => SameSchema(data)

\* C5: the alignment check precedes every write: if a record of the batch
\* is schema-inconsistent, no worksheet cell is written and no workbook is
\* saved.
C5_NoWriteUnlessAligned ==
    ~SameSchema(data) =>
        /\ \A i \in 1..Len(workbook) : ~HasCells(workbook[i])
        /\ disk.kind # "File"

\* C6: after write_output_to_sheet succeeds on a non-empty batch, cell (0,0)
\* holds "test-name", cell (0,c) holds the c-th header of the first record
\* for c in 1..n, and row 0 has no other cell.
C6_HeaderRow ==
    (WriteSucceeded /\ Len(data) >= 1) =>
        LET cells == LastSheet.cells
            n == Len(data[1].row_data)
        IN  /\ <<0, 0>> \in DOMAIN cells
            /\ cells[<<0, 0>>].kind = "String"
            /\ cells[<<0, 0>>].str = "test-name"
            /\ \A c \in 1..n :
                  /\ <<0, c>> \in DOMAIN cells
                  /\ cells[<<0, c>>].kind = "String"
                  /\ cells[<<0, c>>].str = data[1].row_data[c].header
            /\ {rc \in DOMAIN cells : rc[1] = 0} = {<<0, c>> : c \in 0..n}

\* A header row of two different labels was written.
C6_Witness ==
    /\ WriteSucceeded /\ Len(data) >= 1
    /\ Len(data[1].row_data) = 2
    /\ data[1].row_data[1].header # data[1].row_data[2].header
    /\ <<0, 2>> \in DOMAIN LastSheet.cells

\* C7: after write_output_to_sheet succeeds, for every r in 1..len(records)
\* cell (r,0) holds the test_name of record r and cell (r,c) the c-th value
\* of record r; the sheet rows are in the order of the records, and no row
\* beyond len(records) and no cell beyond a record's values is written.
C7_DataRows ==
    WriteSucceeded =>
        LET cells == LastSheet.cells
        IN  /\ \A r \in 1..Len(data) :
                  /\ <<r, 0>> \in DOMAIN cells
                  /\ cells[<<r, 0>>].kind = "String"
                  /\ cells[<<r, 0>>].str = data[r].test_name
                  /\ \A c \in 1..Len(data[r].row_data) :
                        /\ <<r, c>> \in DOMAIN cells
                        /\ cells[<<r, c>>].kind = "Number"
                        /\ cells[<<r, c>>].num = data[r].row_data[c].value
                  /\ {rc \in DOMAIN cells : rc[1] = r}
                        = {<<r, c>> : c \in 0..Len(data[r].row_data)}
            /\ \A rc \in DOMAIN cells : rc[1] <= Len(data)

\* Two records that differ in name and in their values were written.
C7_Witness ==
    /\ WriteSucceeded /\ Len(data) = 2
    /\ data[1].test_name # data[2].test_name
    /\ Len(data[1].row_data) = 2 /\ Len(data[2].row_data) = 2
    /\ data[1].row_data # data[2].row_data
    /\ <<2, 2>> \in DOMAIN LastSheet.cells

\* C8: when records is empty, write_output_to_sheet (given a sheet_name a
\* worksheet can carry) creates the worksheet under that name, writes no
\* cell at all, not even the "test-name" cell, and returns Ok.
C8_EmptyRecords ==
    (result.op = "write" /\ Len(data) = 0 /\ last_sheet_name # "") =>
        /\ result.res = Ok
        /\ LastSheet.name = last_sheet_name
        /\ ~HasCells(LastSheet)

\* An empty batch was written to a second sheet of the workbook.
C8_Witness ==
    /\ result.op = "write" /\ Len(data) = 0 /\ last_sheet_name # ""
    /\ Len(workbook) = 2
    /\ result.res = Ok

\* The workbook held a worksheet named sheet_name before the last call of
\* write_output_to_sheet.
NameCollision ==
    /\ result.op = "write"
    /\ \E i \in 1..(Len(workbook) - 1) : workbook[i].name = last_sheet_name

\* C9 as stated: write_output_to_sheet on a workbook that already holds a
\* worksheet named sheet_name returns an error.
C9_DuplicateFailsExport == NameCollision => result.res.kind = "Err"

\* C9, amended: the call with a name already in the workbook returns Ok like
\* any other call with that name; it is the save that fails: close_workbook
\* on a workbook with two worksheets of one name returns an error
\* (SheetnameReused once the file could be created) and writes no workbook.
C9_DuplicateFailsSave ==
    /\ (NameCollision /\ last_sheet_name # "") => result.res = Ok
    /\ (result.op = "close"
          /\ \E i, j \in 1..Len(workbook) :
                i # j /\ workbook[i].name = workbook[j].name) =>
          /\ result.res \in {Err("SheetnameReused"), Err("IoError")}
          /\ disk.kind # "File"

\* Two calls with the same name succeeded and the save reported the name.
C9_Witness ==
    /\ result.op = "close"
    /\ Len(workbook) = 2
    /\ workbook[1].name = last_sheet_name /\ workbook[2].name = last_sheet_name
    /\ HasCells(workbook[1]) /\ HasCells(workbook[2])
    /\ result.res = Err("SheetnameReused")

\* The saved workbook holds the worksheets written from the batch.
Saved == result.op = "close" /\ result.res = Ok /\ disk.kind = "File"

\* C10 as stated: the value read back at (r,c) from the saved worksheet is
\* the two-decimal rounding of the original number.
C10_ReadBackRounded ==
    (Saved /\ SameSchema(data)) =>
        \A i \in 1..Len(disk.sheets) :
            HasCells(disk.sheets[i]) =>
                \A r \in 1..Len(data) : \A c \in 1..Len(data[r].row_data) :
                    CellValue(disk.sheets[i].cells[<<r, c>>])
                        = Round2(data[r].row_data[c].value)

\* C10, amended: reading the saved worksheet of an aligned batch back gives,
\* at each position, the test_name, the header and the number of the input
\* record unchanged (the number is stored unrounded); the two-decimal
\* rounding is what the cell shows under its number format 0.00.
C10_RoundTrip ==
    (Saved /\ SameSchema(data)) =>
        \A i \in 1..Len(disk.sheets) :
            disk.sheets[i].name \in SheetNames =>
                LET cells == disk.sheets[i].cells
                IN  \A r \in 1..Len(data) :
                        /\ CellValue(cells[<<r, 0>>]) = data[r].test_name
                        /\ \A c \in 1..Len(data[r].row_data) :
                              /\ CellValue(cells[<<0, c>>])
                                    = data[r].row_data[c].header
                              /\ CellValue(cells[<<r, c>>])
                                    = data[r].row_data[c].value
                              /\ CellShown(cells[<<r, c>>])
                                    = Round2(data[r].row_data[c].value)

\* An aligned batch of two records with a three-decimal value was saved.
C10_Witness ==
    /\ Saved /\ SameSchema(data) /\ Len(data) = 2 /\ Len(disk.sheets) = 2
    /\ \E c \in 1..Len(data[2].row_data) :
          /\ data[2].row_data[c].value # Round2(data[2].row_data[c].value)
          /\ HasCells(disk.sheets[2])
          /\ CellValue(disk.sheets[2].cells[<<2, c>>]) = data[2].row_data[c].value

\* C17: write_output_to_sheet does not re-validate the schema: with a name
\* a worksheet can carry it returns Ok whether or not the records agree in
\* headers and row count; the header row is the one of the first record,
\* and every record fills exactly as many value cells as it has rows, in
\* its own order, under the first record's headers.
C17_NoRevalidation ==
    (result.op = "write" /\ last_sheet_name # "") =>
        /\ result.res = Ok
        /\ Len(data) >= 1 =>
              /\ \A c \in 1..Len(data[1].row_data) :
                    LastSheet.cells[<<0, c>>].str = data[1].row_data[c].header
              /\ Cardinality({rc \in DOMAIN LastSheet.cells : rc[1] = 0})
                    = 1 + Len(data[1].row_data)
        /\ \A r \in 1..Len(data) :
              /\ Cardinality({rc \in DOMAIN LastSheet.cells :
                                 rc[1] = r /\ rc[2] >= 1})
                    = Len(data[r].row_data)
              /\ \A c \in 1..Len(data[r].row_data) :
                    LastSheet.cells[<<r, c>>].num = data[r].row_data[c].value

\* A batch whose second record has the headers of the first in swapped
\* order was written and the call returned Ok.
C17_Witness ==
    /\ result.op = "write" /\ result.res = Ok
    /\ Len(data) = 2
    /\ Len(data[1].row_data) = 2 /\ Len(data[2].row_data) = 2
    /\ data[1].row_data[1].header = data[2].row_data[2].header
    /\ data[1].row_data[2].header = data[2].row_data[1].header
    /\ data[1].row_data[1].header # data[1].row_data[2].header
    /\ LastSheet.cells[<<2, 1>>].num = data[2].row_data[1].value

\* C21: every call of write_output_to_sheet adds exactly one worksheet to
\* the workbook and leaves the earlier ones in place, whether it returns
\* Ok or Err; so until the workbook is closed it holds as many worksheets
\* as there were calls, the calls that reported an error included.
C21_OneWorksheetPerCall ==
    /\ [](result.op # "close" => Len(workbook) = Len(calls))
    /\ [][result'.op = "write" =>
             /\ Len(calls') = Len(calls) + 1
             /\ Len(workbook') = Len(workbook) + 1
             /\ SubSeq(workbook', 1, Len(workbook)) = workbook
             /\ calls'[Len(calls')] = result'.res
         ]_vars

\* Two calls were made, the first returned Err, the second Ok, and the
\* workbook holds two worksheets, the first still empty under its default
\* name.
C21_Witness ==
    /\ result.op = "write"
    /\ Len(calls) = 2
    /\ calls[1].kind = "Err" /\ calls[2] = Ok
    /\ Len(workbook) = 2
    /\ workbook[1].name = "Sheet1" /\ workbook[1].cells = NoCells

(***************************************************************************)
(* Main program properties (under SpecMain; C13 and C18, which speak of    *)
(* ConfigReset events, under SpecReset).                                   *)
(***************************************************************************)
\* Startup has just been carried out: ensure_config_valid has returned and
\* the main loop has not handled a message yet.
Started == ev.kind = "Startup" /\ pc = "loop"

\* This step is one of the handler of the given kind of event: it enters
\* the handler or goes on after a dialog of it.
Handles(kind) ==
    ev'.kind = kind /\ (at' # at \/ Len(queue') < Len(queue))

\* This step is the one in which the handler of the given kind of event
\* ends.
Ends(kind) == Handles(kind) /\ at' = "idle"

\* The writes of the configuration file made by the event loop.
LoopWrites == SelectSeq(cfg_writes, LAMBDA w : w.phase # "startup")

\* C11 as stated: when the configuration file exists but cannot be
\* deserialized at startup, the failure is reported, the default
\* ConfigStore is used, and the file is not written to.
C11_CorruptNotOverwritten ==
    (Started /\ cfg_path_ok /\ cfg_file0 = Corrupt) =>
        /\ ev.alerts # <<>>
        /\ config = ConfigDefault
        /\ cfg_writes = <<>>
        /\ cfg_file = cfg_file0

\* C11, amended: when the configuration file exists but cannot be
\* deserialized at startup, the failure is reported, the default
\* ConfigStore is used, and the defaults are written over the file; if
\* that write fails a second alert is shown and the file stays as it was.
\* The path is remembered for the shutdown save either way.  The file is
\* untouched as long as the first alert is on screen.
C11_CorruptReplaced ==
    /\ (Started /\ cfg_path_ok /\ cfg_file0 = Corrupt) =>
          /\ ev.alerts[1] = "ConfigUnreadable"
          /\ config = ConfigDefault
          /\ Len(cfg_writes) = 1
          /\ cfg_writes[1].value = ConfigDefault
          /\ IF cfg_writes[1].ok
             THEN cfg_file = Stored(ConfigDefault) /\ Len(ev.alerts) = 1
             ELSE cfg_file = Corrupt
                  /\ ev.alerts = <<"ConfigUnreadable", "ConfigWriteFailed">>
          /\ config_path = Some("config")
    /\ (pc = "startup" /\ at = "after_144") =>
          /\ cfg_file0 = Corrupt /\ cfg_file = Corrupt /\ cfg_writes = <<>>
          /\ ev.alerts = <<"ConfigUnreadable">>
          /\ groups.dialog \/ dlg.at = "returned"

\* A corrupt file was found and replaced by the defaults.
C11_Witness ==
    /\ Started /\ cfg_path_ok /\ cfg_file0 = Corrupt
    /\ cfg_file = Stored(ConfigDefault)

\* C12: when the configuration path can be determined and no file is
\* there at startup, the default ConfigStore is written to the path (one
\* write), the application goes on with the defaults, and the path is
\* remembered for the shutdown save exactly when that write succeeded.
C12_MissingWritten ==
    (Started /\ cfg_path_ok /\ cfg_file0 = Missing) =>
        /\ Len(cfg_writes) = 1
        /\ cfg_writes[1].value = ConfigDefault
        /\ config = ConfigDefault
        /\ pc = "loop"
        /\ config_path.kind = "Some" <=> cfg_writes[1].ok
        /\ cfg_writes[1].ok => cfg_file = Stored(ConfigDefault)
        /\ ~cfg_writes[1].ok => cfg_file = Missing /\ ev.alerts # <<>>

\* No file was found, the write of the defaults failed and no path is
\* remembered.
C12_Witness ==
    /\ Started /\ cfg_path_ok /\ cfg_file0 = Missing
    /\ ~cfg_writes[1].ok
    /\ config_path = None
    /\ pc = "loop"

\* C13 as stated: once AppClosing has been handled the event loop has
\* written the configuration file exactly once.
C13_SavedExactlyOnce ==
    pc = "quit" => Len(LoopWrites) = 1

\* C13, amended: the event loop writes the configuration file at most
\* once and only while AppClosing is handled; it does so exactly when a
\* configuration path was remembered at startup and the configuration can
\* be read back from the GUI, and then with the values the GUI holds at
\* that moment.  No other event writes the file.
C13_SavedAtMostOnce ==
    /\ [](/\ Len(LoopWrites) <= 1
          /\ (pc # "quit" /\ LoopWrites # <<>>) =>
                /\ ev.kind = "AppClosing" /\ at = "after_31"
                /\ ~LoopWrites[1].ok
          /\ pc = "quit" =>
                /\ Len(LoopWrites) = 1 <=>
                      (config_path.kind = "Some" /\ gui_config.kind = "Config")
                /\ Len(LoopWrites) = 1 =>
                      /\ LoopWrites[1].value = gui_config.value
                      /\ LoopWrites[1].ok => cfg_file = Stored(gui_config.value)
                      /\ ev.wrote = 1)
    /\ [][(pc = "loop" /\ (cfg_writes' # cfg_writes \/ cfg_file' # cfg_file))
             => ev'.kind = "AppClosing"]_vars

\* The application closed and saved a configuration the user had edited.
C13_Witness ==
    /\ pc = "quit"
    /\ Len(LoopWrites) = 1
    /\ LoopWrites[1].ok
    /\ cfg_file = Stored([read_start_header |-> "Results"])

\* A Process request has just been handled.
Processed == ev.kind = "Process" /\ at = "idle"

\* C14: when a Process request with the input paths p1..pm went ahead, the
\* parser was invoked once for each pi, in the order of the selection.
C14_EveryFileParsed ==
    (Processed /\ ev.passed /\ pc = "loop") => ev.parsed = ev.inputs

\* C15: whatever fails while a Process request is handled, the application
\* does not terminate: the main loop goes on to the next event.
C15_NoFailureFatal ==
    Processed => pc = "loop"

\* The existing path the output validation has just let through.
LetThrough(trace) ==
    trace.kind = "Process" /\ trace.out.kind = "Ok" /\ exists(trace.out.data)

\* The typed name validate_output_path derives a path from.
Derived ==
    WithExtension(IF Len(last_input_paths) > 0 THEN parent(last_input_paths[1])
                  ELSE EmptyPath,
                  output_txt, "xlsx")

\* C16: validate_output_path returns Ok(path) for an existing path only
\* when the user confirmed the overwrite, in the file chooser that handed
\* the path over or in the yes/no dialog; for a typed name whose derived
\* path exists the question is put and the result is Ok exactly when the
\* answer is yes; no processing goes ahead toward an existing target that
\* was not confirmed.
C16_OverwriteConfirmed ==
    [][Ends("Process") =>
         /\ LetThrough(ev') =>
               \/ ev'.asked /\ ev'.yes
               \/ ~ev'.asked /\ confirmed = Some(ev'.out.data)
         /\ (last_output_path = None
               /\ Len(output_txt) > 0 /\ Len(last_input_paths) > 0
               /\ parent(last_input_paths[1]) # EmptyPath
               /\ exists(Derived)) =>
               /\ ev'.asked
               /\ ev'.out.kind = "Ok" <=> ev'.yes
               /\ ev'.passed => ev'.yes
      ]_vars

\* The user typed a name whose derived path exists, said yes, and the
\* validation returned that path.
C16_Witness ==
    /\ LetThrough(ev)
    /\ ev.asked /\ ev.yes
    /\ ev.out.data = << <<"in">>, <<"old", "xlsx">> >>

\* C18: in the event loop the configuration held by the GUI changes only
\* by an edit of the user or by ConfigReset, which sets the defaults;
\* main's config_store changes only when a Process request goes ahead, to
\* the values the GUI holds; the parser call changes neither, and a Process
\* request whose validation fails changes no configuration value.
C18_ConfigFrame ==
    [][pc = "loop" =>
         /\ gui_config' # gui_config =>
               \/ ev'.kind = "EditConfig"
               \/ ev'.kind = "ConfigReset" /\ gui_config' = Stored(ConfigDefault)
         /\ config' # config =>
               /\ ev'.kind = "Process" /\ ev'.passed
               /\ gui_config.kind = "Config" /\ config' = gui_config.value
         /\ ev'.kind = "Process" => gui_config' = gui_config
         /\ parse_result' # parse_result =>
               /\ Stored(config') = gui_config
               /\ parse_result' = read_data_from_file(file_name', raw_text', config')
         /\ (ev'.kind = "Process" /\ ~ev'.passed) =>
               config' = config /\ gui_config' = gui_config
      ]_vars

\* A Process request failed its validation while the GUI held a
\* configuration other than main's config_store.
C18_Witness ==
    /\ Processed /\ ~ev.passed /\ pc = "loop"
    /\ gui_config.kind = "Config"
    /\ gui_config.value # config

\* C19 as stated: a Process request goes ahead only with at least one
\* input path and an Ok from validate_output_path; otherwise an alert is
\* shown and nothing is read, parsed or written.
C19_GateAlerts ==
    Processed =>
        /\ ev.passed <=> (Len(ev.inputs) > 0 /\ ev.out.kind = "Ok")
        /\ ~ev.passed =>
              /\ ev.alerts # <<>>
              /\ ev.reads = <<>> /\ ev.parsed = <<>> /\ ev.wrote = 0

\* C19, amended: a Process request goes ahead only with at least one input
\* path and an Ok from validate_output_path; otherwise an alert is shown,
\* or the user has answered no to the overwrite question and no alert
\* follows; nothing is read, parsed or written, and the input paths, the
\* output path and the output text stay as they were.  They are cleared
\* only by a request that went ahead and ran the parser.
C19_Gate ==
    [][Ends("Process") =>
         /\ ev'.passed <=> (Len(ev'.inputs) > 0 /\ ev'.out.kind = "Ok")
         /\ ev'.inputs = last_input_paths
         /\ ~ev'.passed =>
               /\ ev'.alerts # <<>> \/ (ev'.asked /\ ~ev'.yes)
               /\ ev'.reads = <<>> /\ ev'.parsed = <<>> /\ ev'.wrote = 0
               /\ UNCHANGED <<last_input_paths, last_output_path, output_txt,
                              file_name, raw_text, parse_result, cfg_file,
                              cfg_writes, disk, pc>>
         /\ (last_input_paths' # last_input_paths
               \/ last_output_path' # last_output_path
               \/ output_txt' # output_txt) =>
               /\ ev'.passed /\ Len(ev'.parsed) = 1
               /\ last_input_paths' = <<>>
               /\ last_output_path' = None
               /\ output_txt' = <<>>
      ]_vars

\* The user answered no to the overwrite question: the request was dropped
\* without an alert and the selection is still there.
C19_Witness ==
    /\ Processed /\ ~ev.passed
    /\ ev.asked /\ ~ev.yes
    /\ ev.alerts = <<>>
    /\ last_input_paths = ev.inputs
    /\ Len(last_input_paths) = 2

(***************************************************************************)
(* Integrated dialog properties (under SpecDialog).                        *)
(***************************************************************************)
\* C20: whenever integrated_dialog_message_choice has returned, the
\* io-controls group and the config group are active and the dialog group
\* is deactivated; the groups are in the modal state only while the call
\* waits for a button.
C20_DialogRestores ==
    /\ dlg.at = "returned" =>
          groups.io_controls /\ groups.config /\ ~groups.dialog
    /\ groups.dialog => dlg.at = "waiting"

====
